---- MODULE Spec2Model ----
(***************************************************************************)
(* NFT staking contract (src/src/lib.rs): funding of the reward pool,      *)
(* staking through nft_on_transfer, weighted reward distribution, claim    *)
(* and unstake.                                                            *)
(*                                                                         *)
(* Token amounts are u128 in the contract and routinely exceed what a      *)
(* model-checker integer holds, and distribute_rewards computes shares in  *)
(* f64.  Amounts are therefore kept as little-endian limb sequences        *)
(* (base 2^15, no leading zero limb, <<>> is zero), and the f64 operations *)
(* are modelled bit-exactly (53-bit significand, round to nearest, ties    *)
(* to even).                                                               *)
(***************************************************************************)
EXTENDS Integers, Sequences, FiniteSets, TLC

\* ------------------------------------------------------------------------
\* Unsigned big integers (u128 amounts)
\* ------------------------------------------------------------------------
BASE == 32768
LIMB_BITS == 15

RECURSIVE Pow2(_)
Pow2(n) == IF n = 0 THEN 1 ELSE 2 * Pow2(n - 1)

RECURSIVE Norm(_)
Norm(s) == IF s = <<>> THEN <<>>
           ELSE IF s[Len(s)] = 0 THEN Norm(SubSeq(s, 1, Len(s) - 1))
           ELSE s

RECURSIVE BigOf(_)
BigOf(n) == IF n = 0 THEN <<>> ELSE <<n % BASE>> \o BigOf(n \div BASE)

Limb(a, i) == IF i <= Len(a) THEN a[i] ELSE 0

RECURSIVE AddFrom(_, _, _, _)
AddFrom(a, b, i, carry) ==
    IF i > Len(a) /\ i > Len(b)
    THEN (IF carry = 0 THEN <<>> ELSE <<carry>>)
    ELSE LET s == Limb(a, i) + Limb(b, i) + carry
         IN  <<s % BASE>> \o AddFrom(a, b, i + 1, s \div BASE)

BigAdd(a, b) == AddFrom(a, b, 1, 0)

RECURSIVE CmpFrom(_, _, _)
CmpFrom(a, b, i) ==
    IF i = 0 THEN 0
    ELSE IF a[i] < b[i] THEN -1
    ELSE IF a[i] > b[i] THEN 1
    ELSE CmpFrom(a, b, i - 1)

\* -1, 0, 1 as a < b, a = b, a > b
BigCmp(a, b) == IF Len(a) < Len(b) THEN -1
                ELSE IF Len(a) > Len(b) THEN 1
                ELSE CmpFrom(a, b, Len(a))

BigLeq(a, b) == BigCmp(a, b) <= 0
BigLt(a, b) == BigCmp(a, b) < 0

RECURSIVE SubFrom(_, _, _, _)
SubFrom(a, b, i, borrow) ==
    IF i > Len(a) THEN <<>>
    ELSE LET d == Limb(a, i) - Limb(b, i) - borrow
         IN  IF d < 0 THEN <<d + BASE>> \o SubFrom(a, b, i + 1, 1)
             ELSE <<d>> \o SubFrom(a, b, i + 1, 0)

\* a - b for b <= a
BigSub(a, b) == Norm(SubFrom(a, b, 1, 0))

RECURSIVE MulFrom(_, _, _, _)
MulFrom(a, k, i, carry) ==
    IF i > Len(a) THEN BigOf(carry)
    ELSE LET p == a[i] * k + carry
         IN  <<p % BASE>> \o MulFrom(a, k, i + 1, p \div BASE)

\* a * k for 0 <= k < BASE
BigMulSmall(a, k) == Norm(MulFrom(a, k, 1, 0))

\* long division by 0 < k < BASE, most significant limb first;
\* yields <<quotient limbs (little-endian), remainder>>
RECURSIVE DivFrom(_, _, _, _)
DivFrom(a, k, i, rem) ==
    IF i = 0 THEN <<<<>>, rem>>
    ELSE LET cur  == rem * BASE + a[i]
             rest == DivFrom(a, k, i - 1, cur % k)
         IN  <<rest[1] \o <<cur \div k>>, rest[2]>>

BigDivSmall(a, k) == Norm(DivFrom(a, k, Len(a), 0)[1])
BigModSmall(a, k) == DivFrom(a, k, Len(a), 0)[2]

RECURSIVE Zeros(_)
Zeros(n) == IF n = 0 THEN <<>> ELSE <<0>> \o Zeros(n - 1)

RECURSIVE SmallBitLen(_)
SmallBitLen(n) == IF n = 0 THEN 0 ELSE 1 + SmallBitLen(n \div 2)

BigBitLen(a) == IF a = <<>> THEN 0
                ELSE (Len(a) - 1) * LIMB_BITS + SmallBitLen(a[Len(a)])

\* a * 2^n
BigShl(a, n) ==
    IF a = <<>> THEN <<>>
    ELSE Zeros(n \div LIMB_BITS) \o BigMulSmall(a, Pow2(n % LIMB_BITS))

\* floor(a / 2^n)
BigShr(a, n) ==
    IF n \div LIMB_BITS >= Len(a) THEN <<>>
    ELSE BigDivSmall(SubSeq(a, (n \div LIMB_BITS) + 1, Len(a)), Pow2(n % LIMB_BITS))

BigIsOdd(a) == a # <<>> /\ a[1] % 2 = 1

\* u128::MAX = 2^128 - 1
U128_MAX == BigSub(BigShl(<<1>>, 128), <<1>>)

\* ------------------------------------------------------------------------
\* f64, restricted to the values the contract can produce: +0, positive
\* normal numbers m * 2^e, +infinity and NaN
\* ------------------------------------------------------------------------
F64_MANT == 53

F64Zero == [kind |-> "fin", m |-> <<>>, e |-> 0]
F64Inf == [kind |-> "inf", m |-> <<>>, e |-> 0]
F64NaN == [kind |-> "nan", m |-> <<>>, e |-> 0]

\* nearest f64 to (m + s) * 2^e, where 0 <= s < 1 and sticky says s > 0;
\* ties to even.  A sticky m has more than F64_MANT + 1 bits.
RoundToF64(m, e, sticky) ==
    LET L == BigBitLen(m)
    IN  IF L <= F64_MANT THEN [kind |-> "fin", m |-> m, e |-> e]
        ELSE LET d    == L - F64_MANT
                 q    == BigShr(m, d)
                 rem  == BigSub(m, BigShl(q, d))
                 half == BigShl(<<1>>, d - 1)
                 c    == BigCmp(rem, half)
                 up   == \/ c > 0
                         \/ c = 0 /\ sticky
                         \/ c = 0 /\ ~sticky /\ BigIsOdd(q)
             IN  [kind |-> "fin",
                  m |-> IF up THEN BigAdd(q, <<1>>) ELSE q,
                  e |-> e + d]

\* `x as f64` for x: u128
U128ToF64(x) == RoundToF64(x, 0, FALSE)

\* `w as f64` for a u32 weight and the f64 sums of weights, all exact
SmallToF64(n) == [kind |-> "fin", m |-> BigOf(n), e |-> 0]

\* a / b, b a sum of weights (its significand fits one limb)
F64Div(a, b) ==
    IF a.kind # "fin" \/ b.kind # "fin" THEN F64NaN
    ELSE IF b.m = <<>> THEN (IF a.m = <<>> THEN F64NaN ELSE F64Inf)
    ELSE IF a.m = <<>> THEN F64Zero
    ELSE LET need == (F64_MANT + 3) + BigBitLen(b.m) - BigBitLen(a.m)
             k    == IF need > 0 THEN need ELSE 0
             num  == BigShl(a.m, k)
             q    == BigDivSmall(num, b.m[1])
             r    == BigModSmall(num, b.m[1])
         IN  RoundToF64(q, a.e - b.e - k, r # 0)

\* a * b, a a sum of weights (its significand fits one limb)
F64Mul(a, b) ==
    IF a.kind = "nan" \/ b.kind = "nan" THEN F64NaN
    ELSE IF a.kind = "inf" \/ b.kind = "inf"
         THEN (IF (a.kind = "fin" /\ a.m = <<>>) \/ (b.kind = "fin" /\ b.m = <<>>)
               THEN F64NaN ELSE F64Inf)
    ELSE IF a.m = <<>> \/ b.m = <<>> THEN F64Zero
    ELSE RoundToF64(BigMulSmall(b.m, a.m[1]), a.e + b.e, FALSE)

\* `f as u128`: truncates, saturates, NaN becomes 0
F64ToU128(f) ==
    IF f.kind = "nan" THEN <<>>
    ELSE IF f.kind = "inf" THEN U128_MAX
    ELSE IF f.e >= 0
         THEN (IF BigBitLen(f.m) + f.e > 128 THEN U128_MAX ELSE BigShl(f.m, f.e))
         ELSE BigShr(f.m, 0 - f.e)

\* ------------------------------------------------------------------------
\* Bounds of the model
\* ------------------------------------------------------------------------
MaxPoolOps == 2         \* accepted funding events and successful distributions
MaxStakes == 2          \* stake records ever created

\* ------------------------------------------------------------------------
\* Constants of the contract and of its deployment
\* ------------------------------------------------------------------------
DAY == 86400
MONTH == 30 * DAY

owner == "owner"
sin_token == "sin_token"
sin_nft_contract == "sin_nft"

StakerIds == {"alice", "bob"}
TokenIds == {"t1", "t2"}
TokenRank(t) == IF t = "t1" THEN 1 ELSE IF t = "t2" THEN 2 ELSE 3

\* self.nft_weights.get(nft_type).unwrap_or(&0)
nft_weights(nft_type) ==
    CASE nft_type = "Queen" -> 50
      [] nft_type = "Worker" -> 30
      [] nft_type = "Drone" -> 20
      [] OTHER -> 0

\* amounts the callers pass
BIG_R == BigAdd(BigShl(<<1>>, 53), <<3>>)          \* 2^53 + 3
BIG_FUND == BigAdd(BigShl(<<1>>, 53), BigOf(1200)) \* 2^53 + 1200
Zero == <<>>
FundAmounts == {Zero, BIG_FUND}
DistributeAmounts == {BigOf(29), BIG_R}

\* block timestamps of the calls: the contract's creation and the end of
\* the lockup of a stake made then
TimePoints == {0, MONTH}

\* block timestamps of the scenario of the specification, and the last one
\* before the end of the lockup
ScenarioTimes == {0, 15 * DAY, 20 * DAY, MONTH - 1, MONTH, 31 * DAY}

\* the stake_index values the callers pass
Indexes == 0..(MaxStakes - 1)

\* ------------------------------------------------------------------------
\* JSON values of the msg argument (serde_json::Value)
\* ------------------------------------------------------------------------
JStr(x) == [t |-> "str", s |-> x]
JNum(x) == [t |-> "num", n |-> x]
JArr(x) == [t |-> "arr", a |-> x]
JObj(x) == [t |-> "obj", o |-> x]
JNone == [t |-> "none"]

\* Value::get(key): None unless an object holding the key
JGet(v, key) == IF v.t = "obj" /\ key \in DOMAIN v.o THEN v.o[key] ELSE JNone

Attr(trait, value) == JObj([trait_type |-> JStr(trait), value |-> JStr(value)])
Meta(attrs) == JObj([reference_blob |-> JObj([attributes |-> JArr(attrs)])])

\* the msg strings used; Unparsable stands for text serde_json rejects
Unparsable == [t |-> "unparsable"]
Msgs ==
    { JObj([title |-> JStr("x")]),
      Meta(<<Attr("Wings", "Diamond"), Attr("Body", "Queen")>>) }

\* the flag pair after the attributes i..Len(attrs) have been scanned
RECURSIVE ScanAttributes(_, _, _, _)
ScanAttributes(attrs, i, is_queen, is_worker) ==
    IF i > Len(attrs) THEN <<is_queen, is_worker>>
    ELSE LET trait_type == JGet(attrs[i], "trait_type")
             value      == JGet(attrs[i], "value")
         IN  IF trait_type.t = "str" /\ value.t = "str"
             THEN IF trait_type.s = "Body" /\ value.s = "Queen"
                  THEN ScanAttributes(attrs, i + 1, TRUE, is_worker)
                  ELSE IF trait_type.s = "Wings" /\ value.s = "Diamond"
                       THEN ScanAttributes(attrs, i + 1, is_queen, TRUE)
                       ELSE ScanAttributes(attrs, i + 1, is_queen, is_worker)
             ELSE ScanAttributes(attrs, i + 1, is_queen, is_worker)

\* mutant: Worker is tested before Queen
classify_nft_type_WorkerFirst(meta) ==
    LET attrs      == JGet(JGet(meta, "reference_blob"), "attributes")
        attributes == IF attrs.t = "arr" THEN attrs.a ELSE <<>>
        flags      == ScanAttributes(attributes, 1, FALSE, FALSE)
    IN  IF flags[2] THEN "Worker"
        ELSE IF flags[1] THEN "Queen"
        ELSE "Drone"

classify_nft_type(meta) ==
    LET attrs      == JGet(JGet(meta, "reference_blob"), "attributes")
        attributes == IF attrs.t = "arr" THEN attrs.a ELSE <<>>
        flags      == ScanAttributes(attributes, 1, FALSE, FALSE)
    IN  IF flags[1] THEN "Queen"
        ELSE IF flags[2] THEN "Worker"
        ELSE "Drone"

\* ------------------------------------------------------------------------
\* State
\* ------------------------------------------------------------------------
VARIABLES
    now,                \* env::block_timestamp()
    stakers,            \* UnorderedMap<AccountId, StakerInfo>; NoStaker where absent
    total_reward_pool,  \* reward_distribution.total_reward_pool
    funding_records,    \* reward_distribution.funding_records
    last_distributed,   \* self.last_distributed
    sent,               \* per receiver, the sum of the ft_transfer amounts requested
    returned,           \* per token and receiver, the nft_batch_transfer entries requested
    distributed,        \* amounts of the successful distributions, in order
    last                \* the latest call: its arguments and its outcome

vars == <<now, stakers, total_reward_pool, funding_records, last_distributed,
          sent, returned, distributed, last>>

NoStaker == [present |-> FALSE]
Ok == "ok"

NewStakerInfo == [present |-> TRUE, stakes |-> <<>>, total_rewards_claimed |-> Zero]

\* promises: the cross-contract calls the call issued, in order
Call(op, pred, sender, prev, amount, token, index, err, issued) ==
    [op |-> op, pred |-> pred, sender_id |-> sender, previous_owner_id |-> prev,
     amount |-> amount, token_id |-> token, stake_index |-> index,
     ok |-> (err = Ok), err |-> err, promises |-> issued]

Init ==
    /\ now = 0
    /\ stakers = [a \in StakerIds |-> NoStaker]
    /\ total_reward_pool = Zero
    /\ funding_records = <<>>
    /\ last_distributed = 0
    /\ sent = [a \in StakerIds |-> Zero]
    /\ returned = [x \in TokenIds \X StakerIds |-> 0]
    /\ distributed = <<>>
    /\ last = Call("new", owner, "", "", Zero, "", 0, Ok, <<>>)

\* ------------------------------------------------------------------------
\* Helpers
\* ------------------------------------------------------------------------
\* self.stakers.get(&id)
GetStaker(id) == IF id \in StakerIds THEN stakers[id] ELSE NoStaker

\* mutant: the records behind the index move down by one (Vec::remove)
SwapRemove_Shift(stakes, index) ==
    LET n == Len(stakes)
    IN  [i \in 1..(n - 1) |-> IF i <= index THEN stakes[i] ELSE stakes[i + 1]]

\* mutant: the last record is popped whatever the index
SwapRemove_Pop(stakes, index) ==
    LET n == Len(stakes)
    IN  [i \in 1..(n - 1) |-> stakes[i]]

\* Vector::swap_remove(index), index counted from 0
SwapRemove(stakes, index) ==
    LET n == Len(stakes)
    IN  [i \in 1..(n - 1) |-> IF i = index + 1 THEN stakes[n] ELSE stakes[i]]

\* the inner loop of distribute_rewards: tpes of one stake
RECURSIVE SumWeights(_, _)
SumWeights(nft_types, ids) ==
    IF ids = {} THEN 0
    ELSE LET id == CHOOSE x \in ids : TRUE
         IN  nft_weights(nft_types[id]) + SumWeights(nft_types, ids \ {id})

StakeTpes(stake) == SumWeights(stake.nft_types, DOMAIN stake.nft_types)

RECURSIVE SumTpes(_)
SumTpes(stakes) ==
    IF stakes = <<>> THEN 0 ELSE StakeTpes(Head(stakes)) + SumTpes(Tail(stakes))

RECURSIVE SumOver(_, _)
SumOver(ids, f) ==
    IF ids = {} THEN 0
    ELSE LET id == CHOOSE x \in ids : TRUE
         IN  f[id] + SumOver(ids \ {id}, f)

\* total_tpes after the first pass over self.stakers
TotalTpes ==
    SumOver(StakerIds,
            [a \in StakerIds |-> IF stakers[a].present THEN SumTpes(stakers[a].stakes) ELSE 0])

\* (tpes * (reward_pool as f64 / total_tpes)) as u128
Reward(reward_pool, tpes, total_tpes) ==
    F64ToU128(F64Mul(SmallToF64(tpes),
                     F64Div(U128ToF64(reward_pool), SmallToF64(total_tpes))))

OutstandingStakes ==
    SumOver(StakerIds,
            [a \in StakerIds |-> IF stakers[a].present THEN Len(stakers[a].stakes) ELSE 0])

StakedTokens ==
    UNION {UNION {DOMAIN stakers[a].stakes[i].nft_types : i \in 1..Len(stakers[a].stakes)}
           : a \in {x \in StakerIds : stakers[x].present}}

\* stake records removed so far (each held one token)
RECURSIVE SumReturned(_)
SumReturned(xs) ==
    IF xs = {} THEN 0
    ELSE LET x == CHOOSE y \in xs : TRUE
         IN  returned[x] + SumReturned(xs \ {x})

Removed == SumReturned(DOMAIN returned)

\* ------------------------------------------------------------------------
\* ft_on_transfer
\* ------------------------------------------------------------------------
\* mutant: the caller is not compared with sin_token
ft_on_transfer_assert_AnyCaller(pred, sender_id, amount) ==
    IF sender_id # owner
    THEN "Only Only contract owners are allowed to fund this reward pool"
    ELSE IF ~BigLt(Zero, amount)
    THEN "Funding amount must be greater than zero"
    ELSE Ok

ft_on_transfer_assert(pred, sender_id, amount) ==
    IF sender_id # owner
    THEN "Only Only contract owners are allowed to fund this reward pool"
    ELSE IF pred # sin_token
    THEN "Only SIN tokens are accepted for funding"
    ELSE IF ~BigLt(Zero, amount)
    THEN "Funding amount must be greater than zero"
    ELSE Ok

\* mutant: the funding history keeps only the latest record
ft_on_transfer_Overwrite(pred, sender_id, amount) ==
    LET err == ft_on_transfer_assert(pred, sender_id, amount)
    IN  /\ last.ok
        /\ err = Ok => Len(funding_records) + Len(distributed) < MaxPoolOps
        /\ IF err = Ok
           THEN /\ total_reward_pool' = BigAdd(total_reward_pool, amount)
                /\ funding_records' = <<[amount |-> amount, timestamp |-> now]>>
           ELSE UNCHANGED <<total_reward_pool, funding_records>>
        /\ last' = Call("ft_on_transfer", pred, sender_id, "", amount, "", 0, err, <<>>)
        /\ UNCHANGED <<now, stakers, last_distributed, sent, returned, distributed>>

ft_on_transfer(pred, sender_id, amount) ==
    LET err == ft_on_transfer_assert(pred, sender_id, amount)
    IN  /\ last.ok
        /\ err = Ok => Len(funding_records) + Len(distributed) < MaxPoolOps
        /\ IF err = Ok
           THEN /\ total_reward_pool' = BigAdd(total_reward_pool, amount)
                /\ funding_records' =
                       Append(funding_records, [amount |-> amount, timestamp |-> now])
           ELSE UNCHANGED <<total_reward_pool, funding_records>>
        /\ last' = Call("ft_on_transfer", pred, sender_id, "", amount, "", 0, err, <<>>)
        /\ UNCHANGED <<now, stakers, last_distributed, sent, returned, distributed>>

\* ------------------------------------------------------------------------
\* nft_on_transfer
\* ------------------------------------------------------------------------
\* mutant: the caller is not compared with sin_nft_contract
nft_on_transfer_assert_AnyCaller(pred, sender_id, previous_owner_id, token_id, msg) ==
    IF msg = Unparsable
    THEN "Failed to parse metadata from msg"
    ELSE Ok

nft_on_transfer_assert(pred, sender_id, previous_owner_id, token_id, msg) ==
    IF pred # sin_nft_contract
    THEN "NFT can only be transferred from the SIN NFT contract"
    ELSE IF msg = Unparsable
    THEN "Failed to parse metadata from msg"
    ELSE Ok

\* mutant: the lockup is a day
NewStake_DayLockup(token_id, nft_type) ==
    [nft_ids |-> <<token_id>>,
     nft_types |-> [id \in {token_id} |-> nft_type],
     start_timestamp |-> now,
     lockup_period |-> DAY,
     claimed_rewards |-> Zero]

NewStake(token_id, nft_type) ==
    [nft_ids |-> <<token_id>>,
     nft_types |-> [id \in {token_id} |-> nft_type],
     start_timestamp |-> now,
     lockup_period |-> MONTH,
     claimed_rewards |-> Zero]

\* previous_owner_id is the owner the NFT contract reports with the call;
\* the handler's signature does not take it.  The NFT contract hands over a
\* token only while this contract does not already hold it.
\* At most limit stake records are ever created.
nft_on_transfer_upto(limit, pred, sender_id, previous_owner_id, token_id, msg) ==
    LET err == nft_on_transfer_assert(pred, sender_id, previous_owner_id, token_id, msg)
        staker_info == IF stakers[sender_id].present THEN stakers[sender_id]
                       ELSE NewStakerInfo
    IN  /\ last.ok
        /\ err = Ok => OutstandingStakes + Removed < limit
        /\ pred = sin_nft_contract => token_id \notin StakedTokens
        /\ IF err = Ok
           THEN stakers' = [stakers EXCEPT ![sender_id] =
                    [staker_info EXCEPT !.stakes =
                        Append(@, NewStake(token_id, classify_nft_type(msg)))]]
           ELSE UNCHANGED stakers
        /\ last' = Call("nft_on_transfer", pred, sender_id, previous_owner_id, Zero,
                        token_id, 0, err, <<>>)
        /\ UNCHANGED <<now, total_reward_pool, funding_records, last_distributed,
                       sent, returned, distributed>>

nft_on_transfer(pred, sender_id, previous_owner_id, token_id, msg) ==
    nft_on_transfer_upto(MaxStakes, pred, sender_id, previous_owner_id, token_id, msg)

\* ------------------------------------------------------------------------
\* distribute_rewards
\* ------------------------------------------------------------------------
\* mutant: the amount is not compared with the pool
distribute_rewards_assert_NoPoolCheck(pred, amount) ==
    IF pred # owner
    THEN "Only owner can distribute rewards"
    ELSE Ok

distribute_rewards_assert(pred, amount) ==
    IF pred # owner
    THEN "Only owner can distribute rewards"
    ELSE IF ~BigLeq(amount, total_reward_pool)
    THEN "Insufficient funds in the reward pool for distribution"
    ELSE Ok

\* mutant: crediting a stake restarts its lockup
Credited_Restart(reward_pool, total_tpes) ==
    [a \in StakerIds |->
        IF stakers[a].present
        THEN [stakers[a] EXCEPT !.stakes =
                 [i \in 1..Len(stakers[a].stakes) |->
                     [stakers[a].stakes[i] EXCEPT
                         !.start_timestamp = now,
                         !.claimed_rewards =
                             BigAdd(@, Reward(reward_pool, StakeTpes(stakers[a].stakes[i]),
                                              total_tpes))]]]
        ELSE stakers[a]]

\* the second pass: every stake of every staker is credited its reward
Credited(reward_pool, total_tpes) ==
    [a \in StakerIds |->
        IF stakers[a].present
        THEN [stakers[a] EXCEPT !.stakes =
                 [i \in 1..Len(stakers[a].stakes) |->
                     [stakers[a].stakes[i] EXCEPT !.claimed_rewards =
                         BigAdd(@, Reward(reward_pool, StakeTpes(stakers[a].stakes[i]),
                                          total_tpes))]]]
        ELSE stakers[a]]

distribute_rewards(pred, amount) ==
    LET err == distribute_rewards_assert(pred, amount)
    IN  /\ last.ok
        /\ err = Ok => Len(funding_records) + Len(distributed) < MaxPoolOps
        /\ IF err = Ok
           THEN /\ stakers' = Credited(amount, TotalTpes)
                /\ total_reward_pool' = BigSub(total_reward_pool, amount)
                /\ last_distributed' = now
                /\ distributed' = Append(distributed, amount)
           ELSE UNCHANGED <<stakers, total_reward_pool, last_distributed, distributed>>
        /\ last' = Call("distribute_rewards", pred, "", "", amount, "", 0, err, <<>>)
        /\ UNCHANGED <<now, funding_records, sent, returned>>

\* ------------------------------------------------------------------------
\* claim_reward
\* ------------------------------------------------------------------------
\* mutant: a zero reward is not rejected
claim_reward_assert_NoZeroCheck(pred, stake_index) ==
    LET staker_info == GetStaker(pred)
    IN  IF ~staker_info.present
        THEN "Staker not found"
        ELSE IF ~(stake_index < Len(staker_info.stakes))
        THEN "Invalid staking record index"
        ELSE Ok

claim_reward_assert(pred, stake_index) ==
    LET staker_info == GetStaker(pred)
    IN  IF ~staker_info.present
        THEN "Staker not found"
        ELSE IF ~(stake_index < Len(staker_info.stakes))
        THEN "Invalid staking record index"
        ELSE IF ~BigLt(Zero, staker_info.stakes[stake_index + 1].claimed_rewards)
        THEN "No rewards available to claim"
        ELSE Ok

FtTransfer(receiver_id, amount) ==
    [receiver |-> sin_token, method |-> "ft_transfer", receiver_id |-> receiver_id,
     amount |-> amount, token_ids |-> <<>>]

\* mutant: the accrued reward of every stake of the staker is zeroed
claim_reward_ZeroesAll(pred, stake_index) ==
    LET err == claim_reward_assert(pred, stake_index)
    IN  /\ last.ok
        /\ IF err = Ok
           THEN LET rewards_to_claim == stakers[pred].stakes[stake_index + 1].claimed_rewards
                IN  /\ stakers' = [stakers EXCEPT
                           ![pred].stakes = [i \in 1..Len(@) |->
                                                [@[i] EXCEPT !.claimed_rewards = Zero]],
                           ![pred].total_rewards_claimed = BigAdd(@, rewards_to_claim)]
                    /\ sent' = [sent EXCEPT ![pred] = BigAdd(@, rewards_to_claim)]
                    /\ last' = Call("claim_reward", pred, "", "", Zero, "", stake_index,
                                    err, <<FtTransfer(pred, rewards_to_claim)>>)
           ELSE /\ UNCHANGED <<stakers, sent>>
                /\ last' = Call("claim_reward", pred, "", "", Zero, "", stake_index,
                                err, <<>>)
        /\ UNCHANGED <<now, total_reward_pool, funding_records, last_distributed,
                       returned, distributed>>

\* mutant: the lifetime total of the staker is not raised
claim_reward_NoTotal(pred, stake_index) ==
    LET err == claim_reward_assert(pred, stake_index)
    IN  /\ last.ok
        /\ IF err = Ok
           THEN LET rewards_to_claim == stakers[pred].stakes[stake_index + 1].claimed_rewards
                IN  /\ stakers' = [stakers EXCEPT
                           ![pred].stakes[stake_index + 1].claimed_rewards = Zero]
                    /\ sent' = [sent EXCEPT ![pred] = BigAdd(@, rewards_to_claim)]
                    /\ last' = Call("claim_reward", pred, "", "", Zero, "", stake_index,
                                    err, <<FtTransfer(pred, rewards_to_claim)>>)
           ELSE /\ UNCHANGED <<stakers, sent>>
                /\ last' = Call("claim_reward", pred, "", "", Zero, "", stake_index,
                                err, <<>>)
        /\ UNCHANGED <<now, total_reward_pool, funding_records, last_distributed,
                       returned, distributed>>

claim_reward(pred, stake_index) ==
    LET err == claim_reward_assert(pred, stake_index)
    IN  /\ last.ok
        /\ IF err = Ok
           THEN LET rewards_to_claim == stakers[pred].stakes[stake_index + 1].claimed_rewards
                IN  /\ stakers' = [stakers EXCEPT
                           ![pred].stakes[stake_index + 1].claimed_rewards = Zero,
                           ![pred].total_rewards_claimed = BigAdd(@, rewards_to_claim)]
                    /\ sent' = [sent EXCEPT ![pred] = BigAdd(@, rewards_to_claim)]
                    /\ last' = Call("claim_reward", pred, "", "", Zero, "", stake_index,
                                    err, <<FtTransfer(pred, rewards_to_claim)>>)
           ELSE /\ UNCHANGED <<stakers, sent>>
                /\ last' = Call("claim_reward", pred, "", "", Zero, "", stake_index,
                                err, <<>>)
        /\ UNCHANGED <<now, total_reward_pool, funding_records, last_distributed,
                       returned, distributed>>

\* ------------------------------------------------------------------------
\* unstake_nfts
\* ------------------------------------------------------------------------
\* mutant: the lockup ends one tick late (> for >=)
unstake_nfts_assert_Strict(pred, stake_index) ==
    LET staker_info == GetStaker(pred)
    IN  IF ~staker_info.present
        THEN "Staker not found"
        ELSE IF ~(stake_index < Len(staker_info.stakes))
        THEN "Invalid staking record index"
        ELSE IF ~(now > staker_info.stakes[stake_index + 1].start_timestamp
                        + staker_info.stakes[stake_index + 1].lockup_period)
        THEN "Cannot unstake before lockup period"
        ELSE Ok

unstake_nfts_assert(pred, stake_index) ==
    LET staker_info == GetStaker(pred)
    IN  IF ~staker_info.present
        THEN "Staker not found"
        ELSE IF ~(stake_index < Len(staker_info.stakes))
        THEN "Invalid staking record index"
        ELSE IF ~(now >= staker_info.stakes[stake_index + 1].start_timestamp
                         + staker_info.stakes[stake_index + 1].lockup_period)
        THEN "Cannot unstake before lockup period"
        ELSE Ok

NftBatchTransfer(nft_ids, staker_id) ==
    [receiver |-> sin_nft_contract, method |-> "nft_batch_transfer",
     receiver_id |-> staker_id, amount |-> Zero,
     token_ids |-> [i \in 1..Len(nft_ids) |-> <<nft_ids[i], staker_id>>]]

\* returned, with the entries i..Len(token_ids) of a batch counted in
RECURSIVE Requested(_, _)
Requested(token_ids, i) ==
    IF i > Len(token_ids) THEN returned
    ELSE [Requested(token_ids, i + 1) EXCEPT ![token_ids[i]] = @ + 1]

\* mutant: the accrued reward of the removed record is paid out
unstake_nfts_PaysOut(pred, stake_index) ==
    LET err == unstake_nfts_assert(pred, stake_index)
    IN  /\ last.ok
        /\ IF err = Ok
           THEN LET nft_ids == stakers[pred].stakes[stake_index + 1].nft_ids
                    rewards == stakers[pred].stakes[stake_index + 1].claimed_rewards
                IN  /\ stakers' = [stakers EXCEPT
                           ![pred].stakes = SwapRemove(@, stake_index),
                           ![pred].total_rewards_claimed = BigAdd(@, rewards)]
                    /\ returned' = Requested(NftBatchTransfer(nft_ids, pred).token_ids, 1)
                    /\ sent' = [sent EXCEPT ![pred] = BigAdd(@, rewards)]
                    /\ last' = Call("unstake_nfts", pred, "", "", Zero, "", stake_index,
                                    err, <<NftBatchTransfer(nft_ids, pred),
                                           FtTransfer(pred, rewards)>>)
           ELSE /\ UNCHANGED <<stakers, returned, sent>>
                /\ last' = Call("unstake_nfts", pred, "", "", Zero, "", stake_index,
                                err, <<>>)
        /\ UNCHANGED <<now, total_reward_pool, funding_records, last_distributed,
                       distributed>>

unstake_nfts(pred, stake_index) ==
    LET err == unstake_nfts_assert(pred, stake_index)
    IN  /\ last.ok
        /\ IF err = Ok
           THEN LET nft_ids == stakers[pred].stakes[stake_index + 1].nft_ids
                IN  /\ stakers' = [stakers EXCEPT
                           ![pred].stakes = SwapRemove(@, stake_index)]
                    /\ returned' = Requested(NftBatchTransfer(nft_ids, pred).token_ids, 1)
                    /\ last' = Call("unstake_nfts", pred, "", "", Zero, "", stake_index,
                                    err, <<NftBatchTransfer(nft_ids, pred)>>)
           ELSE /\ UNCHANGED <<stakers, returned>>
                /\ last' = Call("unstake_nfts", pred, "", "", Zero, "", stake_index,
                                err, <<>>)
        /\ UNCHANGED <<now, total_reward_pool, funding_records, last_distributed,
                       sent, distributed>>

\* ------------------------------------------------------------------------
\* Environment: the block timestamp moves forward between calls, and a call
\* that panicked is rolled back by the runtime before the next one is
\* admitted (every handler waits for last.ok)
\* ------------------------------------------------------------------------
Idle == Call("idle", "", "", "", Zero, "", 0, Ok, <<>>)

Tick(times) ==
    /\ last.ok
    /\ \E t \in times : t > now /\ now' = t
    /\ last' = Idle
    /\ UNCHANGED <<stakers, total_reward_pool, funding_records, last_distributed,
                   sent, returned, distributed>>

RolledBack ==
    /\ ~last.ok
    /\ last' = Idle
    /\ UNCHANGED <<now, stakers, total_reward_pool, funding_records, last_distributed,
                   sent, returned, distributed>>

\* ------------------------------------------------------------------------
\* Callers
\* ------------------------------------------------------------------------
\* one honest caller and one intruder per gate
FundCalls ==
    {<<sin_token, owner, amount>> : amount \in FundAmounts}
        \cup {<<"alice", owner, BIG_FUND>>, <<sin_token, "alice", BIG_FUND>>}
\* the NFT contract hands over the first token this contract does not hold,
\* sent by its owner or, for alice's tokens, by bob as an approved account
FreeTokens == TokenIds \ StakedTokens
NextTokens == {t \in FreeTokens : \A u \in FreeTokens : TokenRank(t) <= TokenRank(u)}
NftCalls ==
    {<<sin_nft_contract, c[1], c[2], t, msg>> :
        c \in {<<"alice", "alice">>, <<"bob", "bob">>, <<"bob", "alice">>},
        t \in NextTokens, msg \in Msgs}
        \cup {<<sin_nft_contract, "alice", "alice", t, Unparsable>> : t \in NextTokens}
        \cup {<<"alice", "alice", "alice", "t1", JObj([title |-> JStr("x")])>>}
DistributeCalls ==
    {<<owner, amount>> : amount \in DistributeAmounts} \cup {<<"alice", BigOf(29)>>}

Next ==
    \/ Tick(TimePoints)
    \/ RolledBack
    \/ \E c \in FundCalls : ft_on_transfer(c[1], c[2], c[3])
    \/ \E c \in NftCalls : nft_on_transfer(c[1], c[2], c[3], c[4], c[5])
    \/ \E c \in DistributeCalls : distribute_rewards(c[1], c[2])
    \/ \E pred \in StakerIds, stake_index \in Indexes :
           claim_reward(pred, stake_index)
    \/ \E pred \in StakerIds, stake_index \in Indexes :
           unstake_nfts(pred, stake_index)

Spec == Init /\ [][Next]_vars

\* ------------------------------------------------------------------------
\* The scenario of the specification: alice stakes Queen items, the owner
\* funds the pool and distributes 1000, at the block timestamps 0, 15, 20
\* and 31 days
\* ------------------------------------------------------------------------
QueenMsg == Meta(<<Attr("Body", "Queen")>>)
ScenarioFunds == {BigOf(1000), BigOf(2500)}

NextScenario ==
    \/ Tick(ScenarioTimes)
    \/ RolledBack
    \/ \E amount \in ScenarioFunds : ft_on_transfer(sin_token, owner, amount)
    \/ \E t \in NextTokens : nft_on_transfer(sin_nft_contract, "alice", "alice", t, QueenMsg)
    \/ distribute_rewards(owner, BigOf(1000))
    \/ \E stake_index \in Indexes : claim_reward("alice", stake_index)
    \/ \E stake_index \in Indexes : unstake_nfts("alice", stake_index)

SpecScenario == Init /\ [][NextScenario]_vars

\* ------------------------------------------------------------------------
\* Properties
\* ------------------------------------------------------------------------
RECURSIVE SumAccrued(_)
SumAccrued(stakes) ==
    IF stakes = <<>> THEN Zero
    ELSE BigAdd(Head(stakes).claimed_rewards, SumAccrued(Tail(stakes)))

RECURSIVE BigSumOver(_, _)
BigSumOver(ids, f) ==
    IF ids = {} THEN Zero
    ELSE LET id == CHOOSE x \in ids : TRUE
         IN  BigAdd(f[id], BigSumOver(ids \ {id}, f))

\* the accrued unclaimed reward of all outstanding stakes
TotalAccrued ==
    BigSumOver(StakerIds,
               [a \in StakerIds |->
                   IF stakers[a].present THEN SumAccrued(stakers[a].stakes) ELSE Zero])

\* floor(R * w / T)
FloorShare(R, w, T) == BigDivSmall(BigMulSmall(R, w), T)

ValidIndex(id, stake_index) ==
    GetStaker(id).present /\ stake_index < Len(GetStaker(id).stakes)

StakeAt(id, stake_index) == stakers[id].stakes[stake_index + 1]

Untouched == UNCHANGED <<stakers, total_reward_pool, funding_records, last_distributed,
                         sent, returned, distributed>>

\* C1: a successful distribution of R over a non-empty ledger credits at
\* most R in total, and leaves less than total_weight of R uncredited.
C1_Conservation ==
    [][(last'.op = "distribute_rewards" /\ last'.ok /\ TotalTpes > 0) =>
         LET R        == last'.amount
             credited == BigSub(TotalAccrued', TotalAccrued)
         IN  /\ BigLeq(credited, R)
             /\ BigLt(BigSub(R, credited), BigOf(TotalTpes))]_vars

\* C2: a successful distribution of R with total_weight > 0 raises the
\* accrued reward of every outstanding stake by exactly
\* floor(R * stake_weight / total_weight), the weights being read before
\* any stake is credited.
C2_ProportionalCredit ==
    [][(last'.op = "distribute_rewards" /\ last'.ok /\ TotalTpes > 0) =>
         \A a \in StakerIds :
             stakers[a].present =>
                 /\ stakers'[a].present
                 /\ Len(stakers'[a].stakes) = Len(stakers[a].stakes)
                 /\ \A i \in 1..Len(stakers[a].stakes) :
                        stakers'[a].stakes[i].claimed_rewards =
                            BigAdd(stakers[a].stakes[i].claimed_rewards,
                                   FloorShare(last'.amount, StakeTpes(stakers[a].stakes[i]),
                                              TotalTpes))]_vars

\* C3: with nothing staked (total_weight = 0), a distribution by the owner
\* of R <= total_available fails or leaves the pool balance and every stake
\* record as they were.
C3_NothingStakedNoOp ==
    [][(/\ last'.op = "distribute_rewards"
        /\ last'.pred = owner
        /\ TotalTpes = 0
        /\ BigLeq(last'.amount, total_reward_pool)) =>
         \/ ~last'.ok
         \/ total_reward_pool' = total_reward_pool /\ stakers' = stakers]_vars

\* C4: claim_reward on a valid index with zero accrued reward fails and
\* changes nothing; a successful claim zeroes the accrued reward and
\* requests the accrued amount once; a claim that directly follows a
\* successful claim of the same stake fails, and no call but a
\* distribution raises the accrued reward of a stake.
C4_IdempotentClaim ==
    [][/\ last'.op = "claim_reward" =>
           LET id == last'.pred
               ix == last'.stake_index
           IN  /\ (ValidIndex(id, ix) /\ StakeAt(id, ix).claimed_rewards = Zero) =>
                      ~last'.ok /\ Untouched /\ last'.promises = <<>>
               /\ last'.ok =>
                      /\ stakers'[id].stakes[ix + 1].claimed_rewards = Zero
                      /\ last'.promises =
                             <<FtTransfer(id, StakeAt(id, ix).claimed_rewards)>>
                      /\ sent'[id] = BigAdd(sent[id], StakeAt(id, ix).claimed_rewards)
               /\ (/\ last.op = "claim_reward" /\ last.ok
                   /\ last.pred = id /\ last.stake_index = ix) => ~last'.ok
       /\ last'.op # "distribute_rewards" =>
           \A a \in StakerIds :
               (stakers[a].present /\ stakers'[a].present) =>
                   \A i \in 1..Len(stakers'[a].stakes), j \in 1..Len(stakers[a].stakes) :
                       stakers'[a].stakes[i].nft_ids = stakers[a].stakes[j].nft_ids =>
                           BigLeq(stakers'[a].stakes[i].claimed_rewards,
                                  stakers[a].stakes[j].claimed_rewards)]_vars

C4_Witness ==
    /\ last.op = "claim_reward" /\ ~last.ok
    /\ last.err = "No rewards available to claim"
    /\ sent[last.pred] # Zero

C6_OwnershipGate ==
    (last.op = "nft_on_transfer" /\ last.previous_owner_id # last.sender_id) => ~last.ok

\* C7: ft_on_transfer is rejected, pool and funding history unchanged,
\* unless the sender is the owner, the caller is the token contract and the
\* amount is positive; then the pool grows by the amount and one record
\* (amount, now) is appended.
C7_FundingGate ==
    [][last'.op = "ft_on_transfer" =>
         IF /\ last'.sender_id = owner
            /\ last'.pred = sin_token
            /\ BigLt(Zero, last'.amount)
         THEN /\ last'.ok
              /\ total_reward_pool' = BigAdd(total_reward_pool, last'.amount)
              /\ funding_records' =
                     funding_records \o <<[amount |-> last'.amount, timestamp |-> now]>>
         ELSE /\ ~last'.ok
              /\ UNCHANGED <<total_reward_pool, funding_records>>]_vars

C7_Witness ==
    /\ last.op = "ft_on_transfer" /\ last.ok
    /\ funding_records # <<>>
    /\ funding_records[Len(funding_records)].amount = last.amount
    /\ total_reward_pool = last.amount

\* C8: distribute_rewards is rejected without any change when the caller is
\* not the owner or when R exceeds the pool balance; a distribution that
\* succeeds takes R <= balance out of the pool, which never goes below 0.
C8_DistributionGate ==
    [][last'.op = "distribute_rewards" =>
         /\ (last'.pred # owner \/ BigLt(total_reward_pool, last'.amount)) =>
                ~last'.ok /\ Untouched
         /\ last'.ok =>
                /\ BigLeq(last'.amount, total_reward_pool)
                /\ BigAdd(total_reward_pool', last'.amount) = total_reward_pool]_vars

C8_Witness ==
    /\ last.op = "distribute_rewards" /\ ~last.ok
    /\ last.pred = owner
    /\ total_reward_pool # Zero
    /\ BigLt(total_reward_pool, last.amount)

\* C9: every rejected call leaves the stake records, the lifetime counters,
\* the pool, the funding history and the last distribution time as they
\* were and issues no transfer request; the calls listed are rejected.
Rejectable(c) ==
    \/ /\ c.op \in {"claim_reward", "unstake_nfts"}
       /\ ~ValidIndex(c.pred, c.stake_index)
    \/ /\ c.op = "claim_reward"
       /\ ValidIndex(c.pred, c.stake_index)
       /\ StakeAt(c.pred, c.stake_index).claimed_rewards = Zero
    \/ /\ c.op = "unstake_nfts"
       /\ ValidIndex(c.pred, c.stake_index)
       /\ now < StakeAt(c.pred, c.stake_index).start_timestamp
                    + StakeAt(c.pred, c.stake_index).lockup_period
    \/ /\ c.op = "distribute_rewards"
       /\ (c.pred # owner \/ BigLt(total_reward_pool, c.amount))
    \/ /\ c.op = "ft_on_transfer"
       /\ (c.sender_id # owner \/ c.pred # sin_token \/ c.amount = Zero)
    \/ /\ c.op = "nft_on_transfer"
       /\ c.pred # sin_nft_contract

C9_NoPartialMutation ==
    [][/\ Rejectable(last') => ~last'.ok
       /\ ~last'.ok => Untouched /\ last'.promises = <<>>]_vars

C9_Witness ==
    /\ last.op = "nft_on_transfer" /\ ~last.ok
    /\ last.pred # sin_nft_contract
    /\ OutstandingStakes > 0
    /\ total_reward_pool # Zero
    /\ TotalAccrued # Zero

\* C10: with alice's Queen item as the only stake, made at 0, and the pool
\* funded, distributing 1000 at 15 days credits the stake exactly 1000;
\* unstake at 20 days fails on the lockup; the claim requests 1000 for
\* alice, zeroes the accrued reward and adds 1000 to her lifetime total;
\* unstake at 31 days removes the stake and requests the item's return.
OnlyStake(id) ==
    /\ OutstandingStakes = 1
    /\ stakers[id].present
    /\ Len(stakers[id].stakes) = 1

MaxAttrs == 2

AttrValues ==
    { Attr("Body", "Queen"), Attr("Wings", "Diamond"),
      Attr("Body", "Diamond"), Attr("Wings", "Queen"), Attr("body", "queen"),
      JObj([trait_type |-> JStr("Wings"), value |-> JStr("Diamond"),
            display_type |-> JStr("x")]),
      JObj([trait_type |-> JStr("Body"), value |-> JNum(1)]),
      JObj([trait_type |-> JStr("Body")]),
      JStr("Body") }

AttrLists == UNION {[1..n -> AttrValues] : n \in 0..MaxAttrs}

NoAttrLists ==
    { JObj([title |-> JStr("x")]),
      JObj([reference_blob |-> JStr("x")]),
      JObj([reference_blob |-> JObj([title |-> JStr("x")])]),
      JObj([reference_blob |-> JObj([attributes |-> JStr("x")])]),
      JObj([reference_blob |-> JObj([attributes |-> Attr("Body", "Queen")])]),
      JArr(<<Attr("Body", "Queen")>>),
      JObj([attributes |-> JArr(<<Attr("Body", "Queen")>>)]),
      JNum(1) }

Metas == {Meta(attrs) : attrs \in AttrLists} \cup NoAttrLists

\* nft_type is "" until the function has been applied
ClassifyCall(meta, nft_type) ==
    [op |-> "classify_nft_type", ok |-> TRUE, meta |-> meta, nft_type |-> nft_type]

InitClassify ==
    /\ now = 0
    /\ stakers = [a \in StakerIds |-> NoStaker]
    /\ total_reward_pool = Zero
    /\ funding_records = <<>>
    /\ last_distributed = 0
    /\ sent = [a \in StakerIds |-> Zero]
    /\ returned = [x \in TokenIds \X StakerIds |-> 0]
    /\ distributed = <<>>
    /\ \E meta \in Metas : last = ClassifyCall(meta, "")

Classify ==
    /\ last.nft_type = ""
    /\ last' = ClassifyCall(last.meta, classify_nft_type(last.meta))
    /\ UNCHANGED <<now, stakers, total_reward_pool, funding_records, last_distributed,
                   sent, returned, distributed>>

SpecClassify == InitClassify /\ [][Classify]_vars

\* the well-formed (trait, value) pairs of the attribute list of a metadata
WellFormed(attribute) ==
    /\ attribute.t = "obj"
    /\ {"trait_type", "value"} \subseteq DOMAIN attribute.o
    /\ attribute.o.trait_type.t = "str"
    /\ attribute.o.value.t = "str"

HasAttrList(meta) ==
    /\ meta.t = "obj"
    /\ "reference_blob" \in DOMAIN meta.o
    /\ meta.o.reference_blob.t = "obj"
    /\ "attributes" \in DOMAIN meta.o.reference_blob.o
    /\ meta.o.reference_blob.o.attributes.t = "arr"

AttributesOf(meta) ==
    IF HasAttrList(meta)
    THEN LET attrs == meta.o.reference_blob.o.attributes.a
         IN  {<<attrs[i].o.trait_type.s, attrs[i].o.value.s>> :
                 i \in {j \in 1..Len(attrs) : WellFormed(attrs[j])}}
    ELSE {}

\* C11: the type classify_nft_type returns depends only on the set of
\* (trait, value) attributes of the metadata: Queen iff Body=Queen is among
\* them, else Worker iff Wings=Diamond is, else Drone; a metadata without a
\* well-formed attribute list is a Drone, and every metadata gets a type.
C11_Classification ==
    last.nft_type # "" =>
        LET attributes == AttributesOf(last.meta)
        IN  /\ last.nft_type =
                   IF <<"Body", "Queen">> \in attributes THEN "Queen"
                   ELSE IF <<"Wings", "Diamond">> \in attributes THEN "Worker"
                   ELSE "Drone"
            /\ ~HasAttrList(last.meta) => last.nft_type = "Drone"
            /\ \A meta \in Metas :
                   AttributesOf(meta) = attributes =>
                       classify_nft_type(meta) = last.nft_type

C11_Witness ==
    /\ last.nft_type = "Queen"
    /\ last.meta = Meta(<<Attr("Wings", "Diamond"), Attr("Body", "Queen")>>)

\* C12: a successful distribution over a non-empty ledger lowers the pool
\* balance by exactly the sum of the rewards it credited to the stakes, so
\* that the part of R no stake was credited stays in the pool.
C12_ResidualStaysInPool ==
    [][(last'.op = "distribute_rewards" /\ last'.ok /\ TotalTpes > 0) =>
         LET credited == BigSub(TotalAccrued', TotalAccrued)
         IN  /\ BigLeq(TotalAccrued, TotalAccrued')
             /\ BigAdd(total_reward_pool', credited) = total_reward_pool]_vars

\* the ft_transfer amounts a list of promises requests for a receiver
RECURSIVE FtRequested(_, _)
FtRequested(promises, a) ==
    IF promises = <<>> THEN Zero
    ELSE BigAdd(IF Head(promises).method = "ft_transfer" /\ Head(promises).receiver_id = a
                THEN Head(promises).amount ELSE Zero,
                FtRequested(Tail(promises), a))

\* total_rewards_claimed of an account in a stakers map, 0 where absent
LifetimeClaimed(map, a) == IF map[a].present THEN map[a].total_rewards_claimed ELSE Zero

\* C13: for every staker the sum of the ft_transfer amounts requested for
\* them equals their total_rewards_claimed, and both grow, in the same
\* step, by exactly the accrued amount a successful claim of theirs zeroes;
\* no step but that claim changes either sum.
C13_ExactlyOncePayout ==
    [][\A a \in StakerIds :
         LET claimed == last'.op = "claim_reward" /\ last'.ok /\ last'.pred = a
             zeroed  == IF claimed
                        THEN BigSub(StakeAt(a, last'.stake_index).claimed_rewards,
                                    stakers'[a].stakes[last'.stake_index + 1].claimed_rewards)
                        ELSE Zero
         IN  /\ claimed => zeroed = StakeAt(a, last'.stake_index).claimed_rewards
             /\ FtRequested(last'.promises, a) = zeroed
             /\ sent'[a] = BigAdd(sent[a], zeroed)
             /\ LifetimeClaimed(stakers', a) = BigAdd(LifetimeClaimed(stakers, a), zeroed)
             /\ sent'[a] = LifetimeClaimed(stakers', a)]_vars

C13_Witness ==
    /\ last.op = "claim_reward" /\ last.ok
    /\ last.promises # <<>>
    /\ sent[last.pred] = stakers[last.pred].total_rewards_claimed
    /\ BigLt(last.promises[1].amount, sent[last.pred])

\* C14: a successful claim_reward(i) by S leaves a ledger in which stake
\* i's accrued reward is 0, S's total_rewards_claimed is higher by the
\* previous accrued amount and nothing else differs, and the call issues
\* exactly one ft_transfer, to S, of that amount; afterwards no step but a
\* distribution raises the accrued reward at any index (an unstake only
\* drops or moves records), and no step lowers total_rewards_claimed.
C14_ClaimEffect ==
    [][/\ (last'.op = "claim_reward" /\ last'.ok) =>
           LET id   == last'.pred
               ix   == last'.stake_index
               prev == StakeAt(id, ix).claimed_rewards
           IN  /\ ValidIndex(id, ix)
               /\ BigLt(Zero, prev)
               /\ \A a \in StakerIds \ {id} : stakers'[a] = stakers[a]
               /\ stakers'[id].present
               /\ Len(stakers'[id].stakes) = Len(stakers[id].stakes)
               /\ \A k \in 1..Len(stakers[id].stakes) :
                      stakers'[id].stakes[k] =
                          IF k = ix + 1
                          THEN [stakers[id].stakes[k] EXCEPT !.claimed_rewards = Zero]
                          ELSE stakers[id].stakes[k]
               /\ stakers'[id].total_rewards_claimed =
                      BigAdd(stakers[id].total_rewards_claimed, prev)
               /\ Len(last'.promises) = 1
               /\ last'.promises[1] = FtTransfer(id, prev)
               /\ last'.promises[1].amount =
                      BigSub(stakers'[id].total_rewards_claimed,
                             stakers[id].total_rewards_claimed)
               /\ UNCHANGED <<total_reward_pool, funding_records, last_distributed,
                              returned, distributed>>
       /\ \A a \in StakerIds :
              BigLeq(LifetimeClaimed(stakers, a), LifetimeClaimed(stakers', a))
       /\ ~(last'.op = "distribute_rewards" /\ last'.ok) =>
              \A a \in StakerIds :
                  stakers[a].present =>
                      IF last'.op = "unstake_nfts" /\ last'.ok
                      THEN \A k \in 1..Len(stakers'[a].stakes) :
                               \E j \in 1..Len(stakers[a].stakes) :
                                   stakers'[a].stakes[k] = stakers[a].stakes[j]
                      ELSE \A k \in 1..Len(stakers[a].stakes) :
                               BigLeq(stakers'[a].stakes[k].claimed_rewards,
                                      stakers[a].stakes[k].claimed_rewards)]_vars

\* a step taken after a successful claim: the claimed stake stays at 0
C14_Witness ==
    /\ last.op = "nft_on_transfer" /\ last.ok
    /\ sent["alice"] # Zero
    /\ stakers["alice"].total_rewards_claimed = sent["alice"]
    /\ Len(stakers["alice"].stakes) = 2
    /\ stakers["alice"].stakes[1].claimed_rewards = Zero

\* the item ids of the stake records of a stakers map
HeldItems(map) ==
    UNION {UNION {{map[a].stakes[k].nft_ids[i] : i \in 1..Len(map[a].stakes[k].nft_ids)}
                  : k \in 1..Len(map[a].stakes)}
           : a \in {x \in StakerIds : map[x].present}}

ItemsOf(stake) == {stake.nft_ids[i] : i \in 1..Len(stake.nft_ids)}

\* C15: a successful unstake_nfts(i) by S removes the record at index i of
\* S and no other record, and issues exactly one nft_batch_transfer to the
\* item registry whose entries are the item ids of that record, each
\* addressed to S; the items held in stake records grow by the item of
\* every accepted stake, shrink by the items of every return requested,
\* and change in no other step.
C15_UnstakeEffect ==
    [][/\ (last'.op = "unstake_nfts" /\ last'.ok) =>
           LET id      == last'.pred
               ix      == last'.stake_index
               removed == StakeAt(id, ix)
               n       == Len(stakers[id].stakes)
           IN  /\ ValidIndex(id, ix)
               /\ \A a \in StakerIds \ {id} : stakers'[a] = stakers[a]
               /\ Len(stakers'[id].stakes) = n - 1
               /\ {stakers'[id].stakes[k] : k \in 1..(n - 1)} =
                      {stakers[id].stakes[j] : j \in (1..n) \ {ix + 1}}
               /\ Len(last'.promises) = 1
               /\ last'.promises[1].receiver = sin_nft_contract
               /\ last'.promises[1].method = "nft_batch_transfer"
               /\ last'.promises[1].token_ids =
                      [i \in 1..Len(removed.nft_ids) |-> <<removed.nft_ids[i], id>>]
               /\ \A x \in DOMAIN returned :
                      returned'[x] =
                          IF x[2] = id /\ x[1] \in ItemsOf(removed)
                          THEN returned[x] + 1 ELSE returned[x]
               /\ HeldItems(stakers') = HeldItems(stakers) \ ItemsOf(removed)
       /\ (last'.op = "nft_on_transfer" /\ last'.ok) =>
               /\ last'.token_id \notin HeldItems(stakers)
               /\ HeldItems(stakers') = HeldItems(stakers) \cup {last'.token_id}
               /\ returned' = returned
       /\ ~(last'.ok /\ last'.op \in {"unstake_nfts", "nft_on_transfer"}) =>
               /\ HeldItems(stakers') = HeldItems(stakers)
               /\ returned' = returned]_vars

C15_Witness ==
    /\ last.op = "unstake_nfts" /\ last.ok
    /\ Len(stakers[last.pred].stakes) = 1
    /\ returned[<<"t1", last.pred>>] = 1
    /\ HeldItems(stakers) = {"t2"}
    /\ last.promises[1].token_ids = <<<<"t1", last.pred>>>>

\* the sum of the amounts of a funding history
RECURSIVE FundedSum(_)
FundedSum(records) ==
    IF records = <<>> THEN Zero
    ELSE BigAdd(Head(records).amount, FundedSum(Tail(records)))

\* the sum of a sequence of amounts
RECURSIVE AmountSum(_)
AmountSum(amounts) ==
    IF amounts = <<>> THEN Zero
    ELSE BigAdd(Head(amounts), AmountSum(Tail(amounts)))

\* C16: the pool balance, the funding history and the list of distributed
\* amounts change only in an accepted funding, which raises the balance by
\* its positive amount and appends one record to the history, the earlier
\* records kept, and in a successful distribution, which lowers the
\* balance by exactly R; after either the balance plus the distributed
\* amounts equals the sum of the funding history (as it does initially,
\* all being empty); stake, claim and unstake leave the balance as it was.
C16_PoolAccounting ==
    [][/\ \/ UNCHANGED <<total_reward_pool, funding_records, distributed>>
          \/ /\ last'.op = "ft_on_transfer" /\ last'.ok
             /\ BigLt(Zero, last'.amount)
             /\ total_reward_pool' = BigAdd(total_reward_pool, last'.amount)
             /\ Len(funding_records') = Len(funding_records) + 1
             /\ SubSeq(funding_records', 1, Len(funding_records)) = funding_records
             /\ funding_records'[Len(funding_records')].amount = last'.amount
             /\ distributed' = distributed
             /\ BigAdd(total_reward_pool', AmountSum(distributed')) =
                    FundedSum(funding_records')
          \/ /\ last'.op = "distribute_rewards" /\ last'.ok
             /\ BigLeq(last'.amount, total_reward_pool)
             /\ total_reward_pool' = BigSub(total_reward_pool, last'.amount)
             /\ funding_records' = funding_records
             /\ distributed' = Append(distributed, last'.amount)
             /\ BigAdd(total_reward_pool', AmountSum(distributed')) =
                    FundedSum(funding_records')
       /\ (last'.op \in {"nft_on_transfer", "claim_reward", "unstake_nfts"}) =>
              UNCHANGED <<total_reward_pool, funding_records>>]_vars

\* a distribution out of a funded pool
C16_Witness ==
    /\ last.op = "distribute_rewards" /\ last.ok
    /\ Len(funding_records) = 1
    /\ distributed = <<last.amount>>
    /\ BigLt(Zero, total_reward_pool)
    /\ BigAdd(total_reward_pool, last.amount) = funding_records[1].amount

\* the fields of a stake record fixed at its creation
Frozen(stake) == <<stake.nft_ids, stake.start_timestamp, stake.lockup_period>>

\* C17: every stake record that exists before a step and is not the one a
\* successful unstake removes exists after it with the same item ids,
\* start_timestamp and lockup_period: at the same index unless the step is
\* a successful unstake of the same account, and then at some index, with
\* all its fields as they were; a successful distribution or claim changes
\* no field of a record but its accrued reward.
C17_StakeImmutability ==
    [][\A a \in StakerIds :
         stakers[a].present =>
             /\ stakers'[a].present
             /\ IF last'.op = "unstake_nfts" /\ last'.ok /\ last'.pred = a
                THEN \A j \in (1..Len(stakers[a].stakes)) \ {last'.stake_index + 1} :
                         \E k \in 1..Len(stakers'[a].stakes) :
                             stakers'[a].stakes[k] = stakers[a].stakes[j]
                ELSE /\ Len(stakers'[a].stakes) >= Len(stakers[a].stakes)
                     /\ \A k \in 1..Len(stakers[a].stakes) :
                            /\ Frozen(stakers'[a].stakes[k]) = Frozen(stakers[a].stakes[k])
                            /\ [stakers'[a].stakes[k] EXCEPT !.claimed_rewards =
                                    stakers[a].stakes[k].claimed_rewards]
                                   = stakers[a].stakes[k]
                            /\ stakers'[a].stakes[k] # stakers[a].stakes[k] =>
                                   /\ last'.ok
                                   /\ last'.op \in {"distribute_rewards", "claim_reward"}]_vars

\* a record credited at the end of its lockup and then moved to index 0
C17_Witness ==
    /\ last.op = "unstake_nfts" /\ last.ok /\ last.stake_index = 0
    /\ now = MONTH
    /\ Len(stakers[last.pred].stakes) = 1
    /\ Frozen(stakers[last.pred].stakes[1]) = <<<<"t2">>, 0, MONTH>>
    /\ BigLt(Zero, stakers[last.pred].stakes[1].claimed_rewards)
    /\ last_distributed = MONTH

\* ------------------------------------------------------------------------
\* One account with up to MaxStakes + 1 stake records at once: alice stakes
\* the tokens of the registry one after the other, the owner funds the pool
\* and distributes, and alice claims and unstakes at every index up to the
\* one behind her last record
\* ------------------------------------------------------------------------
IndexTokens == TokenIds \cup {"t3"}
FreeIndexTokens == IndexTokens \ StakedTokens
NextIndexTokens ==
    {t \in FreeIndexTokens : \A u \in FreeIndexTokens : TokenRank(t) <= TokenRank(u)}

InitIndex ==
    /\ now = 0
    /\ stakers = [a \in StakerIds |-> NoStaker]
    /\ total_reward_pool = Zero
    /\ funding_records = <<>>
    /\ last_distributed = 0
    /\ sent = [a \in StakerIds |-> Zero]
    /\ returned = [x \in IndexTokens \X StakerIds |-> 0]
    /\ distributed = <<>>
    /\ last = Call("new", owner, "", "", Zero, "", 0, Ok, <<>>)

NextIndex ==
    \/ Tick(TimePoints)
    \/ RolledBack
    \/ ft_on_transfer(sin_token, owner, BIG_FUND)
    \/ \E t \in NextIndexTokens, msg \in Msgs :
           nft_on_transfer_upto(MaxStakes + 1, sin_nft_contract, "alice", "alice", t, msg)
    \/ distribute_rewards(owner, BigOf(29))
    \/ \E stake_index \in 0..MaxStakes : claim_reward("alice", stake_index)
    \/ \E stake_index \in 0..MaxStakes : unstake_nfts("alice", stake_index)

SpecIndex == InitIndex /\ [][NextIndex]_vars

\* C18: a successful unstake_nfts(i) on an account with n records leaves
\* n - 1 records: the record that was at index n - 1 is at index i (when
\* i < n - 1) and every record at another index below n - 1 is where and as
\* it was.  A claim or unstake with an index from the number of records on,
\* such as the old index n - 1, fails as out of range and changes nothing;
\* a successful claim or unstake with index i pays or returns what the
\* record now at index i holds.
C18_IndexInstability ==
    [][last'.op \in {"claim_reward", "unstake_nfts"} =>
         LET id == last'.pred
             ix == last'.stake_index
             n  == Len(stakers[id].stakes)
         IN  /\ (stakers[id].present /\ ix >= n) =>
                    /\ ~last'.ok
                    /\ last'.err = "Invalid staking record index"
                    /\ Untouched
             /\ (last'.op = "unstake_nfts" /\ last'.ok) =>
                    /\ ix < n
                    /\ Len(stakers'[id].stakes) = n - 1
                    /\ ix < n - 1 => stakers'[id].stakes[ix + 1] = stakers[id].stakes[n]
                    /\ \A k \in (1..(n - 1)) \ {ix + 1} :
                           stakers'[id].stakes[k] = stakers[id].stakes[k]
                    /\ last'.promises[1].token_ids =
                           [i \in 1..Len(stakers[id].stakes[ix + 1].nft_ids) |->
                               <<stakers[id].stakes[ix + 1].nft_ids[i], id>>]
             /\ (last'.op = "claim_reward" /\ last'.ok) =>
                    /\ ix < n
                    /\ last'.promises[1].amount = stakers[id].stakes[ix + 1].claimed_rewards
                    /\ stakers'[id].stakes[ix + 1].nft_ids =
                           stakers[id].stakes[ix + 1].nft_ids]_vars

\* of the records t1, t2, t3 the first was removed, which moved t3 to
\* index 0 and kept t2 at index 1; unstake_nfts(0) then returned t3
C18_Witness ==
    /\ last.op = "unstake_nfts" /\ last.ok /\ last.stake_index = 0
    /\ last.promises[1].token_ids = <<<<"t3", "alice">>>>
    /\ returned[<<"t1", "alice">>] = 1
    /\ Len(stakers["alice"].stakes) = 1
    /\ stakers["alice"].stakes[1].nft_ids = <<"t2">>

\* the sum of total_rewards_claimed over all accounts
TotalLifetimeClaimed ==
    BigSumOver(StakerIds, [a \in StakerIds |-> LifetimeClaimed(stakers, a)])

\* C19: the pool balance plus the accrued unclaimed reward of all
\* outstanding stakes plus the total_rewards_claimed of all accounts is at
\* most the sum of the accepted funding amounts.
C19_Solvency ==
    BigLeq(BigAdd(total_reward_pool, BigAdd(TotalAccrued, TotalLifetimeClaimed)),
           FundedSum(funding_records))

\* the accrued unclaimed reward of all records of a stakers map
AccruedIn(map) ==
    BigSumOver(StakerIds,
               [a \in StakerIds |->
                   IF map[a].present THEN SumAccrued(map[a].stakes) ELSE Zero])

\* C20: a successful unstake_nfts of a record with a positive accrued
\* reward requests no ft_transfer and leaves every total_rewards_claimed
\* and the pool balance as they were, while the accrued reward of all
\* records falls by that amount; the amount cannot come back: a successful
\* claim pays exactly what it takes out of the accrued reward of all
\* records, and an accepted stake adds a record with accrued reward 0.
C20_UnstakeForfeits ==
    [][/\ (/\ last'.op = "unstake_nfts" /\ last'.ok
           /\ BigLt(Zero, StakeAt(last'.pred, last'.stake_index).claimed_rewards)) =>
              /\ \A i \in 1..Len(last'.promises) : last'.promises[i].method # "ft_transfer"
              /\ sent' = sent
              /\ \A a \in StakerIds :
                     LifetimeClaimed(stakers', a) = LifetimeClaimed(stakers, a)
              /\ total_reward_pool' = total_reward_pool
              /\ BigAdd(AccruedIn(stakers'),
                        StakeAt(last'.pred, last'.stake_index).claimed_rewards)
                     = AccruedIn(stakers)
       /\ (last'.op = "claim_reward" /\ last'.ok) =>
              /\ BigAdd(AccruedIn(stakers'), last'.promises[1].amount) = AccruedIn(stakers)
              /\ sent'[last'.pred] = BigAdd(sent[last'.pred], last'.promises[1].amount)
       /\ (last'.op = "nft_on_transfer" /\ last'.ok) =>
              LET stakes == stakers'[last'.sender_id].stakes
              IN  /\ stakes[Len(stakes)].nft_ids = <<last'.token_id>>
                  /\ stakes[Len(stakes)].claimed_rewards = Zero
                  /\ AccruedIn(stakers') = AccruedIn(stakers)]_vars

\* t1 and t2 were staked and credited, nothing was claimed, and the record
\* of t1 has been removed
C20_Witness ==
    /\ last.op = "unstake_nfts" /\ last.ok
    /\ returned[<<"t1", last.pred>>] = 1
    /\ Removed = 1
    /\ \A a \in StakerIds : sent[a] = Zero
    /\ HeldItems(stakers) = {"t2"}
    /\ TotalAccrued # Zero
    /\ TotalLifetimeClaimed = Zero

====
